---- MODULE Spec2Model ----
(***************************************************************************)
(* A model of deriv_full_bot.py: the FullBrainBot streaming candle         *)
(* pipeline (ws_thread / on_open / on_message / on_error / on_close), the  *)
(* rolling candle store self.data, the price-action detector               *)
(* combine_price_action_factors and the alert gate send_alert.             *)
(*                                                                         *)
(* Prices are integers in thousandths of a price unit (mills), so that     *)
(* the two-decimal formatting of send_alert is a real rounding.  Time is   *)
(* in whole seconds.                                                       *)
(***************************************************************************)
EXTENDS Integers, Sequences, FiniteSets, TLC

VARIABLES
    active,          \* self.active
    data,            \* self.data: (pair, tf) -> sequence of candles
    sent_signals,    \* self.sent_signals: dedup key -> time of the last allowed emission
    connected_sent,  \* self.connected_sent
    ws,              \* the connection self.ws: "none", "connecting", "open", "failed", "closed"
    pc,              \* where ws_thread stands
    wire,            \* the frames ws.send has put on the current connection
    tg,              \* how often bot.send_message was asked, per kind of message
    now,             \* datetime.now(), in seconds
    nticks,          \* clock advances so far
    nmsg,            \* feed events delivered so far
    accepted,        \* history: every candle appended to a key, in arrival order
    emitted,         \* history: dedup key -> time the Notifier was last reached for it
    undelivered,     \* history: the dedup keys whose last request to the Notifier failed
    auth,            \* the feed's answer to the credential of this connection: "none", "pending", "ok", "failed"
    snap,            \* history: data and sent_signals as they were at the last disconnect
    last,            \* history: what the last handler did
    df,              \* the window handed to the detector (detector specification)
    detected         \* what the detector returned for df

vars == <<active, data, sent_signals, connected_sent, ws, pc, wire, tg, now,
          nticks, nmsg, accepted, emitted, undelivered, auth, snap, last, df, detected>>

-----------------------------------------------------------------------------
(* Configuration, lines 16-19.                                             *)

PAIRS == {"frxXAUUSD", "R_75", "R_75S"}

TIMEFRAMES == {1, 5, 10}

CONFIDENCE_THRESHOLD == 5

RATE_LIMIT_MINUTES == 25

\* .tail(100) of on_message and "count": 100 of on_open
CAPACITY == 100

\* the keys of self.data
Keys == PAIRS \X TIMEFRAMES

-----------------------------------------------------------------------------
(* Bounds of the model.                                                    *)

\* feed events of the connection specification
MaxMsgs == 2

\* clock advances
MaxTicks == 2

\* the count of "connected" requests saturates here
MaxAsked == 3

\* candles of a detector window that vary; the ones before them are alike
MaxFree == 6

\* candles the gate specification's feed sends before its events vary
WarmUp == 19

\* feed events of the gate specification after the warm-up
MaxGateMsgs == 3

\* feed events of the store specification
MaxStoreMsgs == 102

\* what the clock advances by: 10 minutes, 25 minutes, a day and 10 minutes
TickSteps == {600, 1500, 87000}

-----------------------------------------------------------------------------
(* Sequences of integers and pandas' tail / min / max.                     *)

Min2(a, b) == IF a <= b THEN a ELSE b

Max2(a, b) == IF a >= b THEN a ELSE b

\* df.tail(n): the last n rows, all of them when there are fewer
TailN(s, n) == SubSeq(s, Max2(1, Len(s) - n + 1), Len(s))

\* a column of a frame
Col(s, f) == [i \in 1..Len(s) |-> s[i][f]]

\* Series.min() / Series.max() of a non-empty column
SeqMin(s) == CHOOSE m \in {s[i] : i \in 1..Len(s)} : \A j \in 1..Len(s) : m <= s[j]

SeqMax(s) == CHOOSE m \in {s[i] : i \in 1..Len(s)} : \A j \in 1..Len(s) : m >= s[j]

\* df["close"].iloc[-1]
LastClose(s) == s[Len(s)].close

-----------------------------------------------------------------------------
(* Price action tools, lines 36-60.                                        *)

\* df[:-1]
Front(s) == SubSeq(s, 1, Len(s) - 1)

\* the mutant of support and resistance: the latest candle left out
calculate_support_resistance_before(s) == <<SeqMin(Col(TailN(Front(s), 20), "low")), SeqMax(Col(TailN(Front(s), 20), "high"))>>

\* (support, resistance)
calculate_support_resistance(s) == <<SeqMin(Col(TailN(s, 20), "low")), SeqMax(Col(TailN(s, 20), "high"))>>

\* (demand, supply)
identify_zones(s) == <<SeqMin(Col(TailN(s, 10), "low")), SeqMax(Col(TailN(s, 10), "high"))>>

RECURSIVE SlopeSum(_, _)
\* sum over i = 1..n of (2(i-1) - 9) * y[i]: with x = 0..9 the least-squares
\* slope is this sum divided by 165, so it has the slope's sign
SlopeSum(y, n) == IF n = 0 THEN 0 ELSE SlopeSum(y, n - 1) + (2 * (n - 1) - 9) * y[n]

\* linregress(np.arange(10), y): needs exactly 10 values, raises ValueError otherwise.
\* The result is the slope scaled by 165.
LinregressSlope(y) == SlopeSum(y, 10)

\* whether detect_trendline raises: x has 10 entries, the tail has Len(s) when shorter
TrendlineRaises(s) == Len(TailN(s, 10)) # 10

\* (slope_high, slope_low), each scaled by 165
detect_trendline(s) == <<LinregressSlope(Col(TailN(s, 10), "high")), LinregressSlope(Col(TailN(s, 10), "low"))>>

detect_breakout(s) ==
    IF Len(s) < 20 THEN "None"
    ELSE LET high == SeqMax(Col(TailN(s, 10), "high"))
             low  == SeqMin(Col(TailN(s, 10), "low"))
         IN  IF LastClose(s) > high THEN "Breakout Up"
             ELSE IF LastClose(s) < low THEN "Breakout Down"
             ELSE "None"

detect_head_shoulders(s) ==
    IF Len(s) < 7 THEN "None"
    ELSE LET c == Col(TailN(s, 7), "close")
         IN  IF c[1] < c[3] /\ c[3] > c[5] /\ c[3] > c[1] /\ c[3] > c[5]
             THEN "H&S pattern" ELSE "None"

-----------------------------------------------------------------------------
(* combine_price_action_factors, lines 62-82.                              *)

NoSignal == [type |-> "None", entry |-> 0, sl |-> 0, tp |-> 0]

\* the call did not return: detect_trendline raised
Raised == [type |-> "ValueError", entry |-> 0, sl |-> 0, tp |-> 0]

IsSignal(sig) == sig.type \in {"LONG", "SHORT"}

\* the mutant of the score: a flat low trendline scores like a falling one
ConfidenceFlatLow(s) ==
    LET sr    == calculate_support_resistance(s)
        slope == detect_trendline(s)
    IN  (IF LastClose(s) > sr[1] THEN 1 ELSE 0)
      + (IF LastClose(s) < sr[2] THEN 1 ELSE 0)
      + (IF detect_breakout(s) # "None" THEN 2 ELSE 0)
      + (IF detect_head_shoulders(s) # "None" THEN 2 ELSE 0)
      + (IF slope[1] > 0 THEN 1 ELSE 0)
      + (IF slope[2] <= 0 THEN 1 ELSE 0)

\* the score of lines 69-75
Confidence(s) ==
    LET sr    == calculate_support_resistance(s)
        slope == detect_trendline(s)
    IN  (IF LastClose(s) > sr[1] THEN 1 ELSE 0)
      + (IF LastClose(s) < sr[2] THEN 1 ELSE 0)
      + (IF detect_breakout(s) # "None" THEN 2 ELSE 0)
      + (IF detect_head_shoulders(s) # "None" THEN 2 ELSE 0)
      + (IF slope[1] > 0 THEN 1 ELSE 0)
      + (IF slope[2] < 0 THEN 1 ELSE 0)

\* the mutant of the emission rule: a LONG as soon as the close is above support
EmitLoose(s) ==
    LET sr == calculate_support_resistance(s)
    IN  IF Confidence(s) >= CONFIDENCE_THRESHOLD
        THEN IF LastClose(s) > sr[1]
             THEN [type |-> "LONG", entry |-> LastClose(s), sl |-> sr[1], tp |-> sr[2]]
             ELSE IF LastClose(s) < sr[1]
             THEN [type |-> "SHORT", entry |-> LastClose(s), sl |-> sr[2], tp |-> sr[1]]
             ELSE NoSignal
        ELSE NoSignal

\* the mutant of the levels: stop and target change places
EmitSwapped(s) ==
    LET sr == calculate_support_resistance(s)
    IN  IF Confidence(s) >= CONFIDENCE_THRESHOLD
        THEN IF LastClose(s) > sr[2]
             THEN [type |-> "LONG", entry |-> LastClose(s), sl |-> sr[2], tp |-> sr[1]]
             ELSE IF LastClose(s) < sr[1]
             THEN [type |-> "SHORT", entry |-> LastClose(s), sl |-> sr[1], tp |-> sr[2]]
             ELSE NoSignal
        ELSE NoSignal

\* lines 77-82
Emit(s) ==
    LET sr == calculate_support_resistance(s)
    IN  IF Confidence(s) >= CONFIDENCE_THRESHOLD
        THEN IF LastClose(s) > sr[2]
             THEN [type |-> "LONG", entry |-> LastClose(s), sl |-> sr[1], tp |-> sr[2]]
             ELSE IF LastClose(s) < sr[1]
             THEN [type |-> "SHORT", entry |-> LastClose(s), sl |-> sr[2], tp |-> sr[1]]
             ELSE NoSignal
        ELSE NoSignal

combine_price_action_factors(s) == IF TrendlineRaises(s) THEN Raised ELSE Emit(s)

-----------------------------------------------------------------------------
(* send_alert, lines 85-98.                                                *)

\* f"{x:.2f}": the price in whole cents, nearest, a tie to the even cent
Fmt2(p) ==
    LET q == p \div 10
        r == p % 10
    IN  IF r > 5 \/ (r = 5 /\ q % 2 = 1) THEN q + 1 ELSE q

\* line 86: f"{pair}_{tf}_{signal['type']}_{signal['entry']:.2f}"
DedupKey(pair, tf, sig) == <<pair, tf, sig.type, Fmt2(sig.entry)>>

NoDedupKey == <<"", 0, "", 0>>

\* timedelta.seconds: the seconds within the day, the days left out
TimedeltaSeconds(d) == d % 86400

\* the mutant of the rate limit: minutes taken for seconds
SuppressedMinutes(ss, key, t) == key \in DOMAIN ss /\ TimedeltaSeconds(t - ss[key]) < RATE_LIMIT_MINUTES

\* line 87: (datetime.now() - sent_signals[key]).seconds/60 < RATE_LIMIT_MINUTES
Suppressed(ss, key, t) == key \in DOMAIN ss /\ TimedeltaSeconds(t - ss[key]) < RATE_LIMIT_MINUTES * 60

\* d[k] = v
MapPut(f, k, v) == [x \in DOMAIN f \cup {k} |-> IF x = k THEN v ELSE f[x]]

MapGet(f, k) == IF k \in DOMAIN f THEN f[k] ELSE -1

EmptyMap == [x \in {} |-> 0]

\* the mutant of the record update: every attempt refreshes the record
SentSignalsRefreshed(ss, key, t) == MapPut(ss, key, t)

\* lines 87-89: sent_signals after the call
SentSignalsAfter(ss, key, t) == IF Suppressed(ss, key, t) THEN ss ELSE MapPut(ss, key, t)

\* the mutant of the record: written only once the Notifier has delivered
SentSignalsOnDelivery(ss, key, t, ok) == IF ok THEN SentSignalsAfter(ss, key, t) ELSE ss

\* lines 87-98: sent_signals after send_alert has returned; line 89 writes the
\* record before the try of line 95, so the outcome ok of bot.send_message
\* does not touch it
SentSignalsOnAttempt(ss, key, t, ok) == SentSignalsAfter(ss, key, t)

-----------------------------------------------------------------------------
(* Feed events and on_message, lines 128-144.                              *)

\* a JSON value where a number is expected: a number or numeric string
\* ("num"), something float()/int() rejects ("str"), or no such key
Num(v) == [k |-> "num", v |-> v]

NotNum == [k |-> "str", v |-> 0]

Missing == [k |-> "missing", v |-> 0]

Event(sym, gran, epoch, o, h, l, c) == [json |-> TRUE, ohlc |-> TRUE, symbol |-> sym, granularity |-> gran, epoch |-> epoch, open |-> o, high |-> h, low |-> l, close |-> c]

\* a candle as a feed event
CandleEvent(sym, gran, cd) == Event(sym, Num(gran), Num(cd.time), Num(cd.open), Num(cd.high), Num(cd.low), Num(cd.close))

NoMsg == [json |-> FALSE, ohlc |-> FALSE, symbol |-> "", granularity |-> Missing, epoch |-> Missing, open |-> Missing, high |-> Missing, low |-> Missing, close |-> Missing]

Candle(t, o, h, l, c) == [time |-> t, open |-> o, high |-> h, low |-> l, close |-> c]

\* line 130: json.loads raises
ParseRaises(msg) == ~msg.json

\* line 131
NoOhlc(msg) == ~msg.ohlc

\* lines 132-133: data["ohlc"]["symbol"] or int(data["ohlc"]["granularity"]) raises
HeaderRaises(msg) == msg.symbol = "" \/ msg.granularity.k # "num"

\* line 133: int(granularity) // 60
Tf(msg) == msg.granularity.v \div 60

\* line 134
Filtered(msg) == Tf(msg) \notin TIMEFRAMES \/ msg.symbol \notin PAIRS

\* lines 135-139: fromtimestamp or one of the float() calls raises
CandleRaises(msg) == \E f \in {"epoch", "open", "high", "low", "close"} : msg[f].k # "num"

new_candle(msg) == Candle(msg.epoch.v, msg.open.v, msg.high.v, msg.low.v, msg.close.v)

\* the mutant of the trim: the first rows kept, as head() would
TrimHead(s) == SubSeq(s, 1, Min2(Len(s), CAPACITY))

\* line 140: .tail(100)
Trim(s) == TailN(s, CAPACITY)

\* how far the handler gets: "error" (an exception, logged at line 144),
\* "ignored" (a return at line 131 or 134) or "appended" (line 140 ran)
Stage(msg) ==
    IF ParseRaises(msg) THEN "error"
    ELSE IF NoOhlc(msg) THEN "ignored"
    ELSE IF HeaderRaises(msg) THEN "error"
    ELSE IF Filtered(msg) THEN "ignored"
    ELSE IF CandleRaises(msg) THEN "error"
    ELSE "appended"

NoKey == <<"", 0>>

Idle(op) == [op |-> op, msg |-> NoMsg, outcome |-> "none", key |-> NoKey, detect |-> FALSE, sig |-> NoSignal, gate |-> "none", dkey |-> NoDedupKey, rec |-> -1, prev |-> -1, at |-> 0, notified |-> FALSE, delivered |-> FALSE, unheard |-> FALSE]

\* the mutant of the handler: the detector runs on the series as it was
\* before the candle of the event was appended
ReceivedStale(msg) ==
    LET stage  == Stage(msg)
        key    == IF stage = "appended" THEN <<msg.symbol, Tf(msg)>> ELSE NoKey
        series == IF stage = "appended" THEN Trim(Append(data[key], new_candle(msg))) ELSE <<>>
    IN  [stage |-> stage, key |-> key, series |-> series,
         sig |-> IF stage = "appended" /\ data[key] # <<>> THEN combine_price_action_factors(data[key]) ELSE NoSignal]

\* lines 130-141: how far the handler gets on an event, the key and the
\* series it writes at line 140 and what the detector returns at line 141
Received(msg) ==
    LET stage  == Stage(msg)
        key    == IF stage = "appended" THEN <<msg.symbol, Tf(msg)>> ELSE NoKey
        series == IF stage = "appended" THEN Trim(Append(data[key], new_candle(msg))) ELSE <<>>
    IN  [stage |-> stage, key |-> key, series |-> series,
         sig |-> IF stage = "appended" THEN combine_price_action_factors(series) ELSE NoSignal]

\* the handler on one feed event; ok: whether bot.send_message succeeds if
\* called.  What the feed has answered to the credential is the caller's to say.
on_message(msg, ok) ==
    /\ pc = "run_forever" /\ ws = "open"
    /\ nmsg' = nmsg + 1
    /\ \E r \in {Received(msg)} :
         LET appended == r.stage = "appended"
             alert    == IsSignal(r.sig)
             dkey     == IF alert THEN DedupKey(r.key[1], r.key[2], r.sig) ELSE NoDedupKey
             reached  == alert /\ ~Suppressed(sent_signals, dkey, now)
         IN  /\ data' = IF appended THEN [data EXCEPT ![r.key] = r.series] ELSE data
             /\ accepted' = IF appended THEN [accepted EXCEPT ![r.key] = Append(@, new_candle(msg))] ELSE accepted
             /\ sent_signals' = IF alert THEN SentSignalsOnAttempt(sent_signals, dkey, now, ok) ELSE sent_signals
             /\ emitted' = IF reached THEN MapPut(emitted, dkey, now) ELSE emitted
             /\ undelivered' = IF ~reached THEN undelivered
                               ELSE IF ok THEN undelivered \ {dkey} ELSE undelivered \cup {dkey}
             /\ tg' = IF reached THEN [tg EXCEPT !.signal = @ + 1] ELSE tg
             /\ last' = [op |-> "on_message", msg |-> msg, outcome |-> r.stage, key |-> r.key,
                         detect |-> appended, sig |-> r.sig,
                         gate |-> IF ~alert THEN "none" ELSE IF reached THEN "allowed" ELSE "suppressed",
                         dkey |-> dkey, rec |-> IF alert THEN MapGet(sent_signals, dkey) ELSE -1,
                         prev |-> IF alert THEN MapGet(emitted, dkey) ELSE -1,
                         at |-> now, notified |-> reached, delivered |-> reached /\ ok,
                         unheard |-> alert /\ dkey \in undelivered]
    /\ snap' = [snap EXCEPT !.valid = FALSE]
    /\ UNCHANGED <<active, connected_sent, ws, pc, wire, now, nticks, df, detected>>

-----------------------------------------------------------------------------
(* The connection: ws_thread, on_open, on_error, on_close, lines 101-151.  *)

\* PAIRS and TIMEFRAMES in the order of the lists of lines 16-17
PairList == <<"frxXAUUSD", "R_75", "R_75S">>

TfList == <<1, 5, 10>>

\* line 116
AuthFrame == [kind |-> "authorize", symbol |-> "", count |-> 0, granularity |-> 0, subscribe |-> 0]

\* lines 122-126
SubFrame(pair, tf) == [kind |-> "ticks_history", symbol |-> pair, count |-> CAPACITY, granularity |-> tf * 60, subscribe |-> 1]

\* lines 120-126: the nine requests, pair by pair
SubFrames == [i \in 1..(Len(PairList) * Len(TfList)) |-> SubFrame(PairList[((i - 1) \div Len(TfList)) + 1], TfList[((i - 1) % Len(TfList)) + 1])]

\* the mutant of a new connection: the store rebuilt as __init__ builds it
DataAfterConnectReset == [k \in Keys |-> <<>>]

\* lines 104-108: a new WebSocketApp leaves self.data alone
DataAfterConnect == data

\* lines 102-109: the loop test and a new connection
ws_thread_loop ==
    /\ pc = "while"
    /\ IF active
       THEN /\ ws' = "connecting"
            /\ pc' = "run_forever"
            /\ wire' = <<>>
            /\ auth' = "none"
            /\ data' = DataAfterConnect
       ELSE /\ pc' = "exit"
            /\ UNCHANGED <<ws, wire, auth, data>>
    /\ last' = Idle("ws_thread")
    /\ UNCHANGED <<active, sent_signals, connected_sent, tg, now, nticks, nmsg, accepted, emitted, undelivered, snap, df, detected>>

\* lines 114-126; ok: whether bot.send_message succeeds if called.  When it
\* raises, the handler ends at line 118: the flag stays unset and no
\* subscription is sent; the connection itself stays open.
on_open(ok) ==
    /\ pc = "run_forever" /\ ws = "connecting"
    /\ LET asked   == ~connected_sent
           raises  == asked /\ ~ok
       IN  /\ wire' = IF raises THEN <<AuthFrame>> ELSE <<AuthFrame>> \o SubFrames
           /\ tg' = IF asked THEN [tg EXCEPT !.connected = Min2(@ + 1, MaxAsked)] ELSE tg
           /\ connected_sent' = (connected_sent \/ (asked /\ ok))
           /\ last' = [Idle("on_open") EXCEPT !.outcome = IF raises THEN "error" ELSE "subscribed",
                                              !.notified = asked, !.delivered = asked /\ ok]
    /\ ws' = "open"
    /\ auth' = "pending"
    /\ UNCHANGED <<active, data, sent_signals, pc, now, nticks, nmsg, accepted, emitted, undelivered, snap, df, detected>>

\* lines 146-147: the transport failed, while connecting or while streaming
on_error ==
    /\ pc = "run_forever" /\ ws \in {"connecting", "open"}
    /\ ws' = "failed"
    /\ snap' = [valid |-> TRUE, data |-> data, sent |-> sent_signals]
    /\ last' = Idle("on_error")
    /\ UNCHANGED <<active, data, sent_signals, connected_sent, pc, wire, tg, now, nticks, nmsg, accepted, emitted, undelivered, auth, df, detected>>

\* the mutant of on_close: the handler logs and returns without the sleep
on_close_no_sleep ==
    /\ pc = "run_forever" /\ ws \in {"open", "failed"}
    /\ ws' = "closed"
    /\ pc' = "while"
    /\ snap' = [valid |-> TRUE, data |-> data, sent |-> sent_signals]
    /\ last' = Idle("on_close")
    /\ UNCHANGED <<active, data, sent_signals, connected_sent, wire, tg, now, nticks, nmsg, accepted, emitted, undelivered, auth, df, detected>>

\* lines 149-151: the connection ended, after an error or closed by the feed;
\* the handler logs and enters its sleep
on_close ==
    /\ pc = "run_forever" /\ ws \in {"open", "failed"}
    /\ ws' = "closed"
    /\ pc' = "on_close_sleep"
    /\ snap' = [valid |-> TRUE, data |-> data, sent |-> sent_signals]
    /\ last' = Idle("on_close")
    /\ UNCHANGED <<active, data, sent_signals, connected_sent, wire, tg, now, nticks, nmsg, accepted, emitted, undelivered, auth, df, detected>>

\* line 151 and line 109: the sleep of on_close is over and run_forever returns
on_close_return ==
    /\ pc = "on_close_sleep"
    /\ pc' = "while"
    /\ last' = Idle("backoff")
    /\ UNCHANGED <<active, data, sent_signals, connected_sent, ws, wire, tg, now, nticks, nmsg, accepted, emitted, undelivered, auth, snap, df, detected>>

\* lines 110-111: run_forever raised
run_forever_raises ==
    /\ pc = "run_forever"
    /\ ws' = "failed"
    /\ pc' = "except_sleep"
    /\ snap' = [valid |-> TRUE, data |-> data, sent |-> sent_signals]
    /\ last' = Idle("except")
    /\ UNCHANGED <<active, data, sent_signals, connected_sent, wire, tg, now, nticks, nmsg, accepted, emitted, undelivered, auth, df, detected>>

\* line 112: the sleep of the except branch is over
except_return ==
    /\ pc = "except_sleep"
    /\ pc' = "while"
    /\ last' = Idle("backoff")
    /\ UNCHANGED <<active, data, sent_signals, connected_sent, ws, wire, tg, now, nticks, nmsg, accepted, emitted, undelivered, auth, snap, df, detected>>

\* the clock moves on
Tick ==
    /\ nticks < MaxTicks
    /\ \E d \in TickSteps : now' = now + d
    /\ nticks' = nticks + 1
    /\ last' = Idle("tick")
    /\ UNCHANGED <<active, data, sent_signals, connected_sent, ws, pc, wire, tg, nmsg, accepted, emitted, undelivered, auth, snap, df, detected>>

-----------------------------------------------------------------------------
(* The state after FullBrainBot(), lines 28-33, before ws_thread's first   *)
(* loop test.                                                              *)

NotRun == [type |-> "NotRun", entry |-> 0, sl |-> 0, tp |-> 0]

Constructed ==
    /\ active = TRUE
    /\ data = [k \in Keys |-> <<>>]
    /\ sent_signals = EmptyMap
    /\ connected_sent = FALSE
    /\ ws = "none"
    /\ pc = "while"
    /\ wire = <<>>
    /\ tg = [connected |-> 0, signal |-> 0]
    /\ now = 0
    /\ nticks = 0
    /\ nmsg = 0
    /\ accepted = [k \in Keys |-> <<>>]
    /\ emitted = EmptyMap
    /\ undelivered = {}
    /\ auth = "none"
    /\ snap = [valid |-> FALSE, data |-> [k \in Keys |-> <<>>], sent |-> EmptyMap]
    /\ last = Idle("init")
    /\ detected = NotRun

Init == Constructed /\ df = <<>>

OnOpen == \E ok \in BOOLEAN : on_open(ok)

-----------------------------------------------------------------------------
(* The connection specification: the whole life cycle, with a feed that    *)
(* sends well-formed and malformed events.                                 *)

\* a candle inside its own range
InsideCandle == Candle(1, 10000, 10500, 9500, 10000)

\* what the feed may send
FeedEvents ==
    { CandleEvent("frxXAUUSD", 300, InsideCandle),
      CandleEvent("R_75", 60, InsideCandle),
      CandleEvent("R_75", 90, InsideCandle),
      CandleEvent("R_75", 120, InsideCandle),
      CandleEvent("BTCUSD", 60, InsideCandle),
      [CandleEvent("R_75", 60, InsideCandle) EXCEPT !.close = NotNum],
      [CandleEvent("R_75", 60, InsideCandle) EXCEPT !.high = Missing],
      [CandleEvent("R_75", 60, InsideCandle) EXCEPT !.granularity = NotNum],
      [CandleEvent("R_75", 60, InsideCandle) EXCEPT !.ohlc = FALSE],
      NoMsg }

OnMessage == \E msg \in FeedEvents, ok \in BOOLEAN : nmsg < MaxMsgs /\ on_message(msg, ok) /\ UNCHANGED auth

Next ==
    \/ ws_thread_loop
    \/ OnOpen
    \/ OnMessage
    \/ on_error
    \/ on_close
    \/ on_close_return
    \/ run_forever_raises
    \/ except_return

Spec == Init /\ [][Next]_vars

\* the ws_thread thread keeps running, the library calls on_close once the
\* transport has failed, both sleeps end, and a feed that is asked again and
\* again eventually accepts a connection
LiveSpec ==
    /\ Spec
    /\ WF_vars(ws_thread_loop)
    /\ WF_vars(ws = "failed" /\ on_close)
    /\ WF_vars(on_close_return)
    /\ WF_vars(except_return)
    /\ SF_vars(OnOpen)

-----------------------------------------------------------------------------
(* Claims on the connection specification.                                 *)

\* an event the Normalizer is to reject: no parseable "ohlc" envelope, a
\* symbol or granularity that is not a configured one, or a required number
\* missing or non-numeric
MalformedEvent(msg) ==
    \/ ~msg.json
    \/ ~msg.ohlc
    \/ msg.symbol \notin PAIRS
    \/ msg.granularity.k # "num"
    \/ msg.granularity.v \notin {60 * tf : tf \in TIMEFRAMES}
    \/ \E f \in {"epoch", "open", "high", "low", "close"} : msg[f].k # "num"

\* C6: a malformed feed event leaves every series unchanged and triggers no
\* detection, no gate check and no notification, and a well-formed event is
\* appended and evaluated whatever came before it
C6_MalformedEventDropped ==
    [][ (last'.op = "on_message" /\ nmsg' = nmsg + 1)
        => /\ MalformedEvent(last'.msg)
              => /\ data' = data
                 /\ sent_signals' = sent_signals
                 /\ tg' = tg
                 /\ ~last'.detect
                 /\ last'.gate = "none"
           /\ ~MalformedEvent(last'.msg)
              => /\ last'.outcome = "appended"
                 /\ last'.detect
                 /\ data'[last'.key] = Trim(Append(data[last'.key], new_candle(last'.msg))) ]_vars

\* a step of the connection life cycle
LifecycleOps == {"ws_thread", "on_open", "on_error", "on_close", "backoff", "except"}

\* C7: open, error, close, the backoff wait and a new connection leave every
\* series and the dedup map unchanged, and from a disconnect until the next
\* connection streams its first event both are what they were at the disconnect
C7_LifecyclePreservesState ==
    /\ [](snap.valid => (data = snap.data /\ sent_signals = snap.sent))
    /\ [][ last'.op \in LifecycleOps => (data' = data /\ sent_signals' = sent_signals) ]_vars

\* a reconnect has opened with a series that was filled before the disconnect
C7_Witness ==
    /\ last.op = "on_open"
    /\ snap.valid
    /\ Len(data[<<"R_75", 1>>]) = 2

\* every configured pair has exactly one subscription request on the wire,
\* with history count 100 and live updates, after the credential
AllSubscribed ==
    /\ Len(wire) >= 1
    /\ wire[1].kind = "authorize"
    /\ \A pair \in PAIRS, tf \in TIMEFRAMES :
          Cardinality({i \in 2..Len(wire) :
                          /\ wire[i].kind = "ticks_history"
                          /\ wire[i].symbol = pair
                          /\ wire[i].granularity = tf * 60
                          /\ wire[i].count = 100
                          /\ wire[i].subscribe = 1}) = 1

\* C8: while the bot is active every transport error or close is followed by
\* a new connection attempt and then by a connection on which all configured
\* pairs are subscribed again
C8_ReconnectsAndResubscribes ==
    /\ []((active /\ ws \in {"failed", "closed"}) => <>(ws = "connecting"))
    /\ []((active /\ ws \in {"failed", "closed"}) => <>(ws = "open" /\ AllSubscribed))

\* C9: on every successful connect the credential and then exactly one
\* subscription request per configured pair are sent, whatever the Notifier does
C9_EveryOpenSubscribesAll == last.op = "on_open" => AllSubscribed

\* C16: a connection that follows an earlier one is created only by the step
\* right after a backoff sleep has ended, whether the earlier one ended by a
\* transport error, a close or an exception out of run_forever
C16_BackoffBeforeReconnect ==
    [][ (ws' = "connecting" /\ ws # "connecting" /\ ws # "none")
        => (last.op = "backoff" /\ ws \in {"closed", "failed"}) ]_vars

\* a second connection was created after a disconnect
C16_Witness ==
    /\ last.op = "ws_thread"
    /\ ws = "connecting"
    /\ snap.valid

\* C10: over the whole lifetime the Notifier is asked for the "connected"
\* notification at most once
C10_ConnectedAskedOnce == tg.connected <= 1

-----------------------------------------------------------------------------
(* The session specification: the connection specification with a feed     *)
(* that answers the credential and an owner that asks the bot to stop.     *)

\* the feed's answer to the credential: JSON without an "ohlc" entry
AuthAnswer == [NoMsg EXCEPT !.json = TRUE]

\* the answer arrives as a feed event; good: the credential was accepted
AuthReply ==
    \E good \in BOOLEAN :
        /\ nmsg < MaxMsgs
        /\ auth = "pending"
        /\ on_message(AuthAnswer, TRUE)
        /\ auth' = IF good THEN "ok" ELSE "failed"

\* shutdown is requested: self.active is set to False from outside
Shutdown ==
    /\ active
    /\ active' = FALSE
    /\ last' = Idle("shutdown")
    /\ UNCHANGED <<data, sent_signals, connected_sent, ws, pc, wire, tg, now, nticks, nmsg, accepted, emitted, undelivered, auth, snap, df, detected>>

NextSession ==
    \/ ws_thread_loop
    \/ OnOpen
    \/ OnMessage
    \/ AuthReply
    \/ on_error
    \/ on_close
    \/ on_close_return
    \/ run_forever_raises
    \/ except_return
    \/ Shutdown

SpecSession == Init /\ [][NextSession]_vars

\* the ws_thread thread keeps running, the library calls on_close once the
\* transport has failed, and both sleeps end; what the feed does to an open
\* connection is the feed's choice
LiveSession ==
    /\ SpecSession
    /\ WF_vars(ws_thread_loop)
    /\ WF_vars(ws = "failed" /\ on_close)
    /\ WF_vars(on_close_return)
    /\ WF_vars(except_return)

\* a subscription request is on the wire of the current connection
Subscribing == \E i \in 1..Len(wire) : wire[i].kind = "ticks_history"

\* C14: once shutdown is requested the ingestion task eventually has closed
\* the transport and left its loop, from every state, a streaming connection
\* included; it starts no new connection and the series stay as they are
C14_ShutdownStops ==
    /\ [](~active => <>(pc = "exit" /\ ws \notin {"connecting", "open"}))
    /\ [][ ~active => (ws' = "connecting" => ws = "connecting") ]_vars
    /\ [][ (~active /\ pc' = "exit") => data' = data ]_vars

\* C15: no subscription request is on a connection before the feed has
\* confirmed the credential sent on it, and none ever when it has refused it
C15_SubscribesAfterAuth == Subscribing => auth = "ok"

-----------------------------------------------------------------------------
(* The detector specification: combine_price_action_factors applied to     *)
(* windows of 1 to 21 candles whose last MaxFree candles vary.             *)

\* a candle that closes above its own high
UpCandle == Candle(1, 10000, 11000, 9000, 12001)

\* a candle that closes below its own low
DownCandle == Candle(1, 10000, 11000, 9000, 8004)

DetectPool == {InsideCandle, UpCandle, DownCandle}

DetectLens == {1, 6, 9, 10, 19, 20, 21}

DetectWindows ==
    { [i \in 1..n |-> IF i <= n - MaxFree THEN InsideCandle ELSE t[i - (n - MaxFree)]] :
          n \in DetectLens, t \in [1..MaxFree -> DetectPool] }

\* what the highs of a scenario window rise by, candle to candle
ScenarioSteps == {500, 1000}

\* the closes of a scenario window before the last one
ScenarioCloses == {105000, 110000}

\* windows of 20 candles with every low at 100, highs rising to 130 and the
\* last close at 132; the MaxFree closes before the last one vary
ScenarioWindows ==
    { [i \in 1..20 |-> Candle(i, 105000, 130000 - step * (20 - i), 100000,
                               IF i = 20 THEN 132000
                               ELSE IF i < 20 - MaxFree THEN 105000
                               ELSE c[i - (19 - MaxFree)])] :
          step \in ScenarioSteps, c \in [1..MaxFree -> ScenarioCloses] }

\* a candle inside its own range that closes above the highs of the pool
WideCandle == Candle(1, 10000, 13000, 8000, 12500)

\* the windows above with a wide candle as the latest one
WideLastWindows == {[w EXCEPT ![Len(w)] = WideCandle] : w \in DetectWindows}

\* candles whose high is below their low, closing above both
InvertedPool == {Candle(1, 10000, 9000, 11000, 12001), Candle(1, 10000, 9000, 11000, 12500)}

\* windows of 20 candles of which every one has its high below its low
InvertedWindows ==
    { [i \in 1..20 |-> IF i <= 20 - MaxFree THEN Candle(1, 10000, 9000, 11000, 12001) ELSE t[i - (20 - MaxFree)]] :
          t \in [1..MaxFree -> InvertedPool] }

InitDetect == Constructed /\ df \in DetectWindows \cup ScenarioWindows \cup WideLastWindows \cup InvertedWindows

Detect ==
    /\ detected = NotRun
    /\ detected' = combine_price_action_factors(df)
    /\ UNCHANGED <<active, data, sent_signals, connected_sent, ws, pc, wire, tg, now, nticks, nmsg, accepted, emitted, undelivered, auth, snap, last, df>>

NextDetect == Detect

SpecDetect == InitDetect /\ [][NextDetect]_vars

\* the lowest low and the highest high of the last 20 candles of a window
LowestLow(w) == CHOOSE v \in {w[i].low : i \in 1..Len(w)} : (\E i \in 1..Len(w) : i > Len(w) - 20 /\ w[i].low = v) /\ (\A i \in 1..Len(w) : i > Len(w) - 20 => v <= w[i].low)

HighestHigh(w) == CHOOSE v \in {w[i].high : i \in 1..Len(w)} : (\E i \in 1..Len(w) : i > Len(w) - 20 /\ w[i].high = v) /\ (\A i \in 1..Len(w) : i > Len(w) - 20 => v >= w[i].high)

\* the window is scored and its score reaches the threshold
Scored(w) == ~TrendlineRaises(w) /\ Confidence(w) >= 5

\* C2: a LONG is returned only when confidence >= 5 and the latest close is
\* above resistance, with entry = close, stop = support, target = resistance;
\* a SHORT only when confidence >= 5 and the close is below support, with
\* entry = close, stop = resistance, target = support; in every other case,
\* confidence >= 5 with the close inside the band included, no signal comes out
C2_EmissionRule ==
    detected # NotRun =>
        LET close == df[Len(df)].close
            S     == LowestLow(df)
            R     == HighestHigh(df)
        IN  /\ detected.type = "LONG"
               => Scored(df) /\ close > R /\ detected = [type |-> "LONG", entry |-> close, sl |-> S, tp |-> R]
            /\ detected.type = "SHORT"
               => Scored(df) /\ close < S /\ detected = [type |-> "SHORT", entry |-> close, sl |-> R, tp |-> S]
            /\ ~(Scored(df) /\ (close > R \/ close < S)) => ~IsSignal(detected)

\* a window scored 5 or more whose close is inside the band gave no signal
C2_Witness ==
    /\ detected = NoSignal
    /\ Scored(df)
    /\ LowestLow(df) <= df[Len(df)].close
    /\ df[Len(df)].close <= HighestHigh(df)

\* a LONG and a SHORT came out
C2_ReachLong == detected.type = "LONG"

C2_ReachShort == detected.type = "SHORT"

\* a window of Scenario A: 20 candles, every low 100, highs rising to 130,
\* last close 132
IsScenarioA(w) ==
    /\ Len(w) = 20
    /\ \A i \in 1..20 : w[i].low = 100000
    /\ \A i \in 1..19 : w[i].high < w[i + 1].high
    /\ w[20].high = 130000
    /\ w[20].close = 132000

\* the closes 7th, 5th and 3rd from the end rise and fall again
ScenarioHeadShoulders(w) == w[14].close < w[16].close /\ w[16].close > w[18].close

\* C12 as stated: on every window of Scenario A a breakout is detected,
\* confidence is at least 5 and a LONG with entry 132, stop 100, target 130
\* is returned, whatever the other closes are
C12_ScenarioAAlwaysLong ==
    (detected # NotRun /\ IsScenarioA(df))
        => /\ detect_breakout(df) = "Breakout Up"
           /\ Confidence(df) >= 5
           /\ detected = [type |-> "LONG", entry |-> 132000, sl |-> 100000, tp |-> 130000]

\* C12: on every window of Scenario A a breakout is detected and the
\* confidence is 4, or 6 when the closes 7th, 5th and 3rd from the end form
\* the head-and-shoulders pattern; the LONG with entry 132, stop 100, target
\* 130 is returned exactly when they do, and no signal otherwise
C12_ScenarioA ==
    (detected # NotRun /\ IsScenarioA(df))
        => /\ detect_breakout(df) = "Breakout Up"
           /\ Confidence(df) = IF ScenarioHeadShoulders(df) THEN 6 ELSE 4
           /\ ScenarioHeadShoulders(df)
                 => detected = [type |-> "LONG", entry |-> 132000, sl |-> 100000, tp |-> 130000]
           /\ ~ScenarioHeadShoulders(df) => detected = NoSignal

\* a window of Scenario A scored 4 and gave no signal
C12_Witness ==
    /\ IsScenarioA(df)
    /\ detected = NoSignal
    /\ Confidence(df) = 4

\* the latest candle of a window closes inside its own range
LatestWellFormed(w) == w[Len(w)].low <= w[Len(w)].close /\ w[Len(w)].close <= w[Len(w)].high

\* C18: detection returns no signal for a window whose latest candle closes
\* inside its own range (low <= close <= high)
C18_WellFormedNeverSignals ==
    (detected # NotRun /\ LatestWellFormed(df)) => ~IsSignal(detected)

\* a window scored 5 or more whose latest candle is inside its own range and
\* closes above every earlier high gave no signal
C18_Witness ==
    /\ detected = NoSignal
    /\ LatestWellFormed(df)
    /\ Scored(df)
    /\ \A i \in 1..(Len(df) - 1) : df[i].high < df[Len(df)].close

\* C19 as stated: a LONG has stop <= target < entry, a SHORT has
\* entry < target <= stop, and the confidence of a signal is at most 7
C19_TargetOnStopSide ==
    IsSignal(detected) =>
        /\ Confidence(df) <= 7
        /\ detected.type = "LONG" => (detected.sl <= detected.tp /\ detected.tp < detected.entry)
        /\ detected.type = "SHORT" => (detected.entry < detected.tp /\ detected.tp <= detected.sl)

\* C19: a LONG has target < entry and a SHORT has entry < target; the stop
\* is on the far side of the target (LONG: stop <= target, SHORT: target <=
\* stop) exactly when the lowest low of the last 20 candles is not above
\* their highest high; the confidence of a signal is at most 7
C19_TargetBeforeEntry ==
    IsSignal(detected) =>
        /\ Confidence(df) <= 7
        /\ detected.type = "LONG"
              => /\ detected.tp < detected.entry
                 /\ detected.sl <= detected.tp <=> LowestLow(df) <= HighestHigh(df)
        /\ detected.type = "SHORT"
              => /\ detected.entry < detected.tp
                 /\ detected.tp <= detected.sl <=> LowestLow(df) <= HighestHigh(df)

\* a LONG of confidence 7 came out with stop < target < entry
C19_Witness ==
    /\ detected.type = "LONG"
    /\ Confidence(df) = 7
    /\ detected.sl < detected.tp
    /\ detected.tp < detected.entry

\* C11: on every non-empty window detection completes without error, with a
\* confidence in 0..8 and a signal or none; under 20 candles the breakout
\* factor contributes 0 and under 7 candles the head-and-shoulders factor
\* contributes 0
C11_DetectionTotal ==
    detected # NotRun =>
        /\ detected.type \in {"LONG", "SHORT", "None"}
        /\ Confidence(df) \in 0..8
        /\ Len(df) < 20 => detect_breakout(df) = "None"
        /\ Len(df) < 7 => detect_head_shoulders(df) = "None"

-----------------------------------------------------------------------------
(* The gate specification: one series is warmed up with WarmUp candles of  *)
(* widening range, then receives candles that close outside the range,     *)
(* while the clock advances.                                               *)

\* the n-th warm-up candle
WarmCandle(n) == Candle(n, 10000, 10500 + 10 * n, 9500 - 10 * n, 10000)

\* closes above the range: two that format to the same cents, one that does not
GatePool == {UpCandle, [UpCandle EXCEPT !.close = 12004], [UpCandle EXCEPT !.close = 12006], DownCandle}

GateFeed(n) == IF n <= WarmUp THEN {WarmCandle(n)} ELSE GatePool

\* the Notifier is up: what the gate does never reads its outcome
GateEvent == \E cd \in GateFeed(nmsg + 1) : nmsg < WarmUp + MaxGateMsgs /\ on_message(CandleEvent("frxXAUUSD", 300, cd), TRUE) /\ UNCHANGED auth

\* the first connect, with the Notifier up
GateOpen == on_open(TRUE)

NextGate ==
    \/ ws_thread_loop
    \/ GateOpen
    \/ GateEvent
    \/ Tick

SpecGate == Init /\ [][NextGate]_vars

\* C3: once the Notifier was reached for a DedupKey at t0, no call for the
\* same DedupKey reaches it at a time t with t - t0 < 25 minutes
C3_SuppressedWithinWindow ==
    (last.op = "on_message" /\ last.notified /\ last.prev >= 0) => last.at - last.prev >= 25 * 60

\* a signal of another price with the same DedupKey, 10 minutes after the
\* emission, was suppressed
C3_Witness ==
    /\ last.gate = "suppressed"
    /\ ~last.notified
    /\ last.prev >= 0
    /\ last.at - last.prev = 600
    /\ last.sig.entry = 12004

\* C4: whenever 25 minutes or more have passed since the last allowed
\* emission of a DedupKey, however long ago, a call for it is allowed and
\* sets lastSentAt to now
C4_StaleRecordNeverSuppresses ==
    (last.gate # "none" /\ last.prev >= 0 /\ last.at - last.prev >= 25 * 60)
        => (last.gate = "allowed" /\ last.notified /\ MapGet(sent_signals, last.dkey) = last.at)

\* C5: a call for DedupKey k changes at most the record of k, and only when
\* the emission is allowed; a suppressed call changes nothing
C5_GateFrame ==
    [][ (last'.op = "on_message" /\ nmsg' = nmsg + 1)
        => /\ last'.gate # "allowed" => sent_signals' = sent_signals
           /\ last'.gate = "allowed"
              => /\ DOMAIN sent_signals' = DOMAIN sent_signals \cup {last'.dkey}
                 /\ sent_signals'[last'.dkey] = now
                 /\ \A k \in DOMAIN sent_signals \ {last'.dkey} : sent_signals'[k] = sent_signals[k] ]_vars

\* a call was suppressed, later than its record, with another key on record
C5_Witness ==
    /\ last.gate = "suppressed"
    /\ last.at > last.rec
    /\ MapGet(sent_signals, last.dkey) = last.rec
    /\ Cardinality(DOMAIN sent_signals) >= 2

\* C17: the Notifier is asked for a signal message only by a handler whose
\* one gate check allowed that signal; every signal the detector returns is
\* put to the gate, once; a handler asks at most once, and its signal is the
\* detector's answer on the series that already holds the handler's candle
C17_GateBetweenDetectionAndNotifier ==
    [][ IF last'.op = "on_message" /\ nmsg' = nmsg + 1
        THEN /\ tg'.signal \in {tg.signal, tg.signal + 1}
             /\ tg'.signal = tg.signal + 1 <=> last'.gate = "allowed"
             /\ last'.gate # "none" <=> IsSignal(last'.sig)
             /\ last'.gate = "allowed" => ~Suppressed(sent_signals, last'.dkey, now)
             /\ last'.gate = "suppressed" => Suppressed(sent_signals, last'.dkey, now)
             /\ last'.gate # "none" => last'.dkey = DedupKey(last'.key[1], last'.key[2], last'.sig)
             /\ last'.outcome = "appended"
             /\ data'[last'.key][Len(data'[last'.key])] = new_candle(last'.msg)
             /\ last'.sig = combine_price_action_factors(data'[last'.key])
        ELSE tg'.signal = tg.signal ]_vars

\* the Notifier was asked for a second signal, allowed by the gate
C17_Witness ==
    /\ last.op = "on_message"
    /\ last.gate = "allowed"
    /\ last.notified
    /\ tg.signal = 2
    /\ Len(data[last.key]) > WarmUp + 1

-----------------------------------------------------------------------------
(* The notifier specification: the gate specification's warm-up, then      *)
(* signals of one DedupKey, with a Notifier that may fail on any of them.  *)

\* two closes above the range that format to the same cents
NotifyPool == {UpCandle, [UpCandle EXCEPT !.close = 12004]}

NotifyFeed(n) == IF n <= WarmUp THEN {WarmCandle(n)} ELSE NotifyPool

NotifyEvent == \E cd \in NotifyFeed(nmsg + 1), ok \in BOOLEAN : nmsg < WarmUp + MaxGateMsgs /\ on_message(CandleEvent("frxXAUUSD", 300, cd), ok) /\ UNCHANGED auth

NextNotify ==
    \/ ws_thread_loop
    \/ GateOpen
    \/ NotifyEvent
    \/ Tick

SpecNotify == Init /\ [][NextNotify]_vars

\* C13: when the Notifier fails on a signal the gate allowed, the failure
\* stays inside the handler and ingestion goes on, the record of the DedupKey
\* holds the time of the attempt, and an identical signal within 25 minutes
\* of a failed attempt is suppressed, not tried again
C13_FailedDeliveryCountsAsSent ==
    /\ (last.op = "on_message" /\ last.notified /\ ~last.delivered)
          => /\ MapGet(sent_signals, last.dkey) = last.at
             /\ last.dkey \in undelivered
             /\ pc = "run_forever" /\ ws = "open"
             /\ last.outcome = "appended"
    /\ (last.op = "on_message" /\ last.unheard /\ last.at - last.prev < 25 * 60)
          => /\ last.gate = "suppressed"
             /\ ~last.notified
             /\ sent_signals[last.dkey] = last.prev

\* the Notifier failed on a signal, and the same signal 10 minutes later
\* was suppressed
C13_Witness ==
    /\ last.op = "on_message"
    /\ last.unheard
    /\ last.gate = "suppressed"
    /\ last.at - last.prev = 600
    /\ last.sig.entry = 12001
    /\ tg.signal = 1

-----------------------------------------------------------------------------
(* The store specification: two series receive a long stream of candles,   *)
(* each stamped with its arrival number.                                   *)

\* the n-th candle of a stream, inside its own range
StoreCandle(n) == Candle(n, 10000 + n, 10500 + (n % 7), 9500 - (n % 5), 10000 + (n % 3))

StoreKeys == {<<"frxXAUUSD", 1>>, <<"R_75", 5>>}

StoreEvent == \E key \in StoreKeys, ok \in BOOLEAN : nmsg < MaxStoreMsgs /\ on_message(CandleEvent(key[1], key[2] * 60, StoreCandle(Len(accepted[key]) + 1)), ok) /\ UNCHANGED auth

NextStore ==
    \/ ws_thread_loop
    \/ OnOpen
    \/ StoreEvent

SpecStore == Init /\ [][NextStore]_vars

\* C1: every series holds at most 100 candles and is, in arrival order, the
\* last min(n, 100) of the n candles accepted for its key
C1_RollingWindow ==
    \A k \in Keys :
        LET n == Len(accepted[k])
            m == IF n < 100 THEN n ELSE 100
        IN  /\ Len(data[k]) = m
            /\ \A i \in 1..m : data[k][i] = accepted[k][n - m + i]

\* a series has taken 102 candles and evicted the first two
C1_Witness ==
    /\ Len(accepted[<<"frxXAUUSD", 1>>]) = 102
    /\ Len(data[<<"frxXAUUSD", 1>>]) = 100
    /\ data[<<"frxXAUUSD", 1>>][1].time = 3

====
